---- MODULE Spec2Model ----
(***************************************************************************)
(* Transactional repository pattern and service validation pipeline of the *)
(* file-track API: the transactional decorator, the per-entity             *)
(* repositories, the exception taxonomy and the per-entity services.       *)
(***************************************************************************)
EXTENDS Integers, Sequences, FiniteSets, TLC

VARIABLES etype, db, nextId, clock, req, last, hist

vars == <<etype, db, nextId, clock, req, last, hist>>

----------------------------------------------------------------------------
(* Bounds of the model *)

MaxId == 2
MaxClock == 3
MaxPage == 2
MaxSize == 2
MaxList == 2

Reqs == {"r1", "r2"}

EntityTypes == {"role", "department", "category", "topic", "settlement"}

----------------------------------------------------------------------------
(* Entities and names.  A name is a sequence of characters. *)

NoId == 0
NoTime == 0
NameFloor == 3

NameAdmin == <<"A", "d", "m", "n">>
NameAdminLower == <<"a", "d", "m", "n">>
NameUser == <<"U", "s", "e", "r">>
NameShort == <<"A", "d", "m">>

NameSet == {NameAdmin, NameAdminLower, NameUser, NameShort}

TermSet == {<<>>, <<"D", "m">>, <<"s", "e">>, <<"z", "z">>}

LowerChar(c) ==
    CASE c = "A" -> "a"
      [] c = "D" -> "d"
      [] c = "U" -> "u"
      [] OTHER -> c

Lower(s) == [i \in 1..Len(s) |-> LowerChar(s[i])]

Contains(s, sub) ==
    \E i \in 0..(Len(s) - Len(sub)) : SubSeq(s, i + 1, i + Len(sub)) = sub

Entity(id, nombre, created_at, updated_at) ==
    [id |-> id, nombre |-> nombre, created_at |-> created_at, updated_at |-> updated_at]

NewEntity(nombre) == Entity(NoId, nombre, NoTime, NoTime)

HasId(d, id) == \E i \in 1..Len(d) : d[i].id = id

RowOf(d, id) == d[CHOOSE i \in 1..Len(d) : d[i].id = id]

NameTaken(d, nombre, exceptId) ==
    \E i \in 1..Len(d) : d[i].nombre = nombre /\ d[i].id # exceptId

----------------------------------------------------------------------------
(* Exception taxonomy and the raw exceptions of the storage layer *)

TaxonomyKinds ==
    {"BadRequest", "Unauthorized", "Forbidden", "NotFound", "Conflict",
     "InvalidField", "Database", "Server"}

RawKinds == {"IntegrityError", "AttributeError", "SQLAlchemyError", "Exception"}

Exc(cls, code, message, details) ==
    [cls |-> cls, code |-> code, message |-> message, details |-> details]

NoExc == Exc("none", 0, <<>>, <<>>)

BadRequestException(message, details) == Exc("BadRequest", 400, message, details)

UnauthorizedException(details) ==
    Exc("Unauthorized", 401,
        <<"Authentication credentials are missing or invalid.">>, details)

ForbiddenException(details) ==
    Exc("Forbidden", 403,
        <<"You don't have permission to access this resource.">>, details)

NotFoundException(details) ==
    Exc("NotFound", 404, <<"The requested resource was not found.">>, details)

ConflictException(details) ==
    Exc("Conflict", 409,
        <<"A conflict occurred with the requested operation.">>, details)

InvalidFieldException(message, details) == Exc("InvalidField", 400, message, details)

DatabaseException(message, details) == Exc("Database", 500, message, details)

ServerException(details) ==
    Exc("Server", 500, <<"An unexpected server error occurred.">>, details)

\* A raw (non-taxonomy) exception; orig is the driver's native detail string
\* of an IntegrityError and empty otherwise.
RawError(cls, text, orig) == Exc(cls, 0, <<text>>, orig)

IsTyped(e) == e.cls \in TaxonomyKinds

\* Python's isinstance(e, catch) over the classes that occur here.
IsA(cls, catch) ==
    \/ cls = catch
    \/ catch = "Exception" /\ cls # "none"
    \/ catch = "SQLAlchemyError" /\ cls = "IntegrityError"
    \/ catch = "BaseHTTPException" /\ cls \in TaxonomyKinds

\* str(e)
StrOf(e) == <<e.cls>> \o e.message \o e.details

\* str(e.orig)
OrigOf(e) == e.details

----------------------------------------------------------------------------
(* Values returned by repository methods, tagged by their Python type *)

NoneVal == [tag |-> "none"]

BoolVal(b) == [tag |-> "bool", b |-> b]

EntVal(e) == [tag |-> "entity", e |-> e]

ListVal(items) == [tag |-> "list", items |-> items]

PageVal(data, meta) == [tag |-> "page", data |-> data, meta |-> meta]

\* hasattr(x, '__table__')
HasTable(v) == v.tag = "entity"

----------------------------------------------------------------------------
(* The storage session: staged changes, flush at commit, refresh, faults *)

Ctx(d, nid, clk) == [db |-> d, nextId |-> nid, clock |-> clk]

NoChange == [op |-> "none", ent |-> NewEntity(<<>>)]

Change(op, e) == [op |-> op, ent |-> e]

LogOp(op, arg) == <<op, arg>>

NoFault == [at |-> "none", cls |-> "none", n |-> 0]

Fault(at, cls, n) == [at |-> at, cls |-> cls, n |-> n]

\* The exception a failing storage round trip raises.
FaultError(f) ==
    RawError(f.cls, "storage fault",
             IF f.cls = "IntegrityError" THEN <<"driver detail">> ELSE <<>>)

RemoveId(d, id) == SelectSeq(d, LAMBDA r : r.id # id)

ReplaceRow(d, e) ==
    [i \in 1..Len(d) |->
        IF d[i].id = e.id
        THEN [d[i] EXCEPT !.nombre = e.nombre, !.updated_at = e.updated_at]
        ELSE d[i]]

\* Faulty variant of the schema: nombre has no unique index.
UniqueViolated_NoIndex(d, nombre, exceptId) == FALSE

\* The unique index on nombre: a row other than exceptId holds the name.
UniqueViolated(d, nombre, exceptId) == NameTaken(d, nombre, exceptId)

\* The flush of the unit of work against the table: the unique constraint on
\* nombre and the check constraint LENGTH(nombre) > 3 raise IntegrityError;
\* an INSERT draws its id from the sequence (consumed even when it fails) and
\* its created_at from CURRENT_TIMESTAMP; an UPDATE that matches no row is a
\* stale-data error; a DELETE that matches no row only warns.
Flush(ch, ctx) ==
    LET same == [err |-> NoExc, db |-> ctx.db, nextId |-> ctx.nextId,
                 clock |-> ctx.clock, ent |-> ch.ent]
        viol(detail) == RawError("IntegrityError", "integrity", <<detail>>)
    IN
    CASE ch.op = "insert" ->
           IF Len(ch.ent.nombre) <= NameFloor
           THEN [same EXCEPT !.err = viol("check violation"),
                             !.nextId = ctx.nextId + 1]
           ELSE IF UniqueViolated(ctx.db, ch.ent.nombre, NoId)
           THEN [same EXCEPT !.err = viol("unique violation"),
                             !.nextId = ctx.nextId + 1]
           ELSE LET row == Entity(ctx.nextId, ch.ent.nombre, ctx.clock,
                                  ch.ent.updated_at)
                IN [err |-> NoExc, db |-> Append(ctx.db, row),
                    nextId |-> ctx.nextId + 1, clock |-> ctx.clock + 1,
                    ent |-> [ch.ent EXCEPT !.id = ctx.nextId]]
      [] ch.op = "update" ->
           IF ~HasId(ctx.db, ch.ent.id)
           THEN [same EXCEPT !.err =
                    RawError("SQLAlchemyError", "stale data", <<>>)]
           ELSE IF Len(ch.ent.nombre) <= NameFloor
           THEN [same EXCEPT !.err = viol("check violation")]
           ELSE IF UniqueViolated(ctx.db, ch.ent.nombre, ch.ent.id)
           THEN [same EXCEPT !.err = viol("unique violation")]
           ELSE [same EXCEPT !.db = ReplaceRow(ctx.db, ch.ent)]
      [] ch.op = "delete" ->
           [same EXCEPT !.db = RemoveId(ctx.db, ch.ent.id)]
      [] OTHER -> same

\* Faulty variant of the commit: the staged change is never flushed.
Commit_NoFlush(ch, ctx, fault) ==
    [err |-> NoExc, db |-> ctx.db, nextId |-> ctx.nextId, clock |-> ctx.clock,
     ent |-> ch.ent]

\* session.commit(): the flush and the commit of the transaction, all or
\* nothing.
Commit(ch, ctx, fault) ==
    IF fault.at = "commit"
    THEN [err |-> FaultError(fault), db |-> ctx.db, nextId |-> ctx.nextId,
          clock |-> ctx.clock, ent |-> ch.ent]
    ELSE Flush(ch, ctx)

\* session.refresh(e) of each entity of items, in order; k refreshes were
\* made before.  Yields the error of the first failing refresh, if any.
RECURSIVE RefreshItems(_, _, _, _)
RefreshItems(items, k, d, fault) ==
    IF items = <<>> THEN [err |-> NoExc, items |-> <<>>, log |-> <<>>]
    ELSE LET it == Head(items) IN
         IF ~HasTable(it)
         THEN LET r == RefreshItems(Tail(items), k, d, fault)
              IN [err |-> r.err, items |-> <<it>> \o r.items, log |-> r.log]
         ELSE IF fault.at = "refresh" /\ fault.n = k + 1
         THEN [err |-> FaultError(fault), items |-> items,
               log |-> <<LogOp("refresh", it.e.id)>>]
         ELSE IF ~HasId(d, it.e.id)
         THEN [err |-> RawError("SQLAlchemyError", "could not refresh", <<>>),
               items |-> items, log |-> <<LogOp("refresh", it.e.id)>>]
         ELSE LET r == RefreshItems(Tail(items), k + 1, d, fault)
              IN [err |-> r.err,
                  items |-> <<EntVal(RowOf(d, it.e.id))>> \o r.items,
                  log |-> <<LogOp("refresh", it.e.id)>> \o r.log]

\* Faulty variant of the refresh: the entities of a list are not refreshed.
RefreshResult_SingleOnly(result, d, fault) ==
    IF result.tag = "none" THEN [err |-> NoExc, val |-> result, log |-> <<>>]
    ELSE IF HasTable(result)
    THEN LET r == RefreshItems(<<result>>, 0, d, fault)
         IN [err |-> r.err, val |-> r.items[1], log |-> r.log]
    ELSE [err |-> NoExc, val |-> result, log |-> <<>>]

\* The refresh of the result after the commit: a single entity, or each
\* entity of a list; nothing else is refreshed.
RefreshResult(result, d, fault) ==
    IF result.tag = "none" THEN [err |-> NoExc, val |-> result, log |-> <<>>]
    ELSE IF HasTable(result)
    THEN LET r == RefreshItems(<<result>>, 0, d, fault)
         IN [err |-> r.err, val |-> r.items[1], log |-> r.log]
    ELSE IF result.tag = "list"
    THEN LET r == RefreshItems(result.items, 0, d, fault)
         IN [err |-> r.err, val |-> ListVal(r.items), log |-> r.log]
    ELSE [err |-> NoExc, val |-> result, log |-> <<>>]

----------------------------------------------------------------------------
(* The transactional decorator *)

Handler(catch, rollback, same, cls, code, message, details) ==
    [catch |-> catch, rollback |-> rollback, same |-> same, cls |-> cls,
     code |-> code, message |-> message, details |-> details]

\* Faulty variant of the except clauses: the InvalidFieldException clause
\* re-raises without a rollback.
TransactionalHandlers_NoRollback(fname) ==
    << Handler("IntegrityError", TRUE, FALSE, "Database", 500,
               <<"Error de integridad de datos">>, "orig"),
       Handler("InvalidField", FALSE, TRUE, "InvalidField", 400, <<>>, "str"),
       Handler("AttributeError", TRUE, FALSE, "InvalidField", 400,
               <<"Error en los atributos proporcionados">>, "str"),
       Handler("SQLAlchemyError", TRUE, FALSE, "Database", 500,
               <<"Error en operacion de base de datos", fname>>, "str"),
       Handler("Exception", TRUE, FALSE, "Database", 500,
               <<"Error inesperado en operacion de repositorio", fname>>,
               "str") >>

\* The except clauses of transactional.wrapper, in order.
TransactionalHandlers(fname) ==
    << Handler("IntegrityError", TRUE, FALSE, "Database", 500,
               <<"Error de integridad de datos">>, "orig"),
       Handler("InvalidField", TRUE, TRUE, "InvalidField", 400, <<>>, "str"),
       Handler("AttributeError", TRUE, FALSE, "InvalidField", 400,
               <<"Error en los atributos proporcionados">>, "str"),
       Handler("SQLAlchemyError", TRUE, FALSE, "Database", 500,
               <<"Error en operacion de base de datos", fname>>, "str"),
       Handler("Exception", TRUE, FALSE, "Database", 500,
               <<"Error inesperado en operacion de repositorio", fname>>,
               "str") >>

\* The first except clause that catches e, or 0.
FirstMatch(hs, e) ==
    LET m == {i \in 1..Len(hs) : IsA(e.cls, hs[i].catch)}
    IN IF m = {} THEN 0 ELSE CHOOSE i \in m : \A j \in m : i <= j

\* Faulty variant of the raise of an except clause: the details are always
\* str(e), never str(e.orig).
Translate_AlwaysStr(h, e) ==
    IF h.same THEN e ELSE Exc(h.cls, h.code, h.message, StrOf(e))

\* What an except clause raises for the exception e it caught.
Translate(h, e) ==
    IF h.same THEN e
    ELSE Exc(h.cls, h.code, h.message,
             IF h.details = "orig" THEN OrigOf(e) ELSE StrOf(e))

\* The outcome of a wrapped body.
BodyOk(result, staged, log) ==
    [raised |-> NoExc, result |-> result, staged |-> staged, log |-> log,
     fired |-> FALSE]

BodyRaise(e, log, fired) ==
    [raised |-> e, result |-> NoneVal, staged |-> NoChange, log |-> log,
     fired |-> fired]

\* The result a mutating call refreshes: the entity as the flush left it.
Committed(B, c) ==
    IF HasTable(B.result) /\ B.staged.op # "none" THEN EntVal(c.ent)
    ELSE B.result

\* The end of the try block of a mutating call: r is the outcome of the
\* refresh that follows the commit c.
AfterRefresh(B, c, r, fault) ==
    [exc |-> r.err, val |-> r.val,
     log |-> B.log \o <<LogOp("commit", 0)>> \o r.log,
     db |-> c.db, nextId |-> c.nextId, clock |-> c.clock,
     fired |-> (r.err.cls # "none" /\ r.err = FaultError(fault))]

\* The try block of a mutating call after its commit c.
AfterCommit(B, ctx, c, fault) ==
    IF c.err.cls # "none"
    THEN [exc |-> c.err, val |-> B.result,
          log |-> B.log \o <<LogOp("commit", 0)>>,
          db |-> ctx.db, nextId |-> c.nextId, clock |-> ctx.clock,
          fired |-> (fault.at = "commit")]
    ELSE AfterRefresh(B, c, RefreshResult(Committed(B, c), c.db, fault), fault)

\* The try block: the body, then for a mutating call the commit and the
\* refresh of the result.
TryBlock(readonly, B, ctx, fault) ==
    IF B.raised.cls # "none" \/ readonly
    THEN [exc |-> B.raised, val |-> B.result, log |-> B.log,
          db |-> ctx.db, nextId |-> ctx.nextId, clock |-> ctx.clock,
          fired |-> B.fired]
    ELSE AfterCommit(B, ctx, Commit(B.staged, ctx, fault), fault)

\* The except clause h, entered with the exception T.exc of the try block.
ExceptClause(h, out, T) ==
    [out EXCEPT !.ok = FALSE, !.val = NoneVal,
                !.exc = Translate(h, T.exc), !.caught = T.exc,
                !.log = IF h.rollback THEN T.log \o <<LogOp("rollback", 0)>>
                        ELSE T.log]

\* The wrapper after its try block T: the result is returned, or the i-th
\* except clause is entered, or (i = 0) the exception leaves as it is.
Wrapper(hs, out, T, i) ==
    IF T.exc.cls = "none" THEN out
    ELSE IF i = 0
    THEN [out EXCEPT !.ok = FALSE, !.val = NoneVal, !.exc = T.exc,
                     !.caught = T.exc]
    ELSE ExceptClause(hs[i], out, T)

\* The record of a call that returns the value of its try block T.
CallRecord(readonly, fname, B, ctx, T) ==
    [fn |-> fname, readonly |-> readonly, ok |-> TRUE, val |-> T.val,
     bodyVal |-> B.result, exc |-> NoExc, caught |-> NoExc, log |-> T.log,
     db |-> T.db, nextId |-> T.nextId, clock |-> T.clock, fired |-> T.fired,
     dbBefore |-> ctx.db, args |-> <<>>]

\* The record of a call with the arguments it was made with.
WithArgs(R, args) == [R EXCEPT !.args = args]

WrapperOf(hs, readonly, fname, B, ctx, T) ==
    Wrapper(hs, CallRecord(readonly, fname, B, ctx, T), T,
            FirstMatch(hs, T.exc))

\* A wrapped repository method: the try block and the except clauses hs.
\* caught is the exception that reached the except clauses, exc the one that
\* leaves the wrapper.
Transactional(hs, readonly, fname, B, ctx, fault) ==
    WrapperOf(hs, readonly, fname, B, ctx, TryBlock(readonly, B, ctx, fault))

----------------------------------------------------------------------------
(* The repositories.  Four of them wrap every method with the decorator;   *)
(* the document-category repository writes its try/except by hand.         *)

\* Faulty variant of the readonly flags: get_all is declared with the
\* default readonly = False.
ReadOnly_GetAllWrites(fname) == fname \notin {"save", "delete", "get_all"}

ReadOnly(fname) == fname \notin {"save", "delete"}

\* The except clauses of CategoriaRepositoryImpl, per method.
CategoryHandlers(fname) ==
    CASE fname = "save" ->
           << Handler("IntegrityError", TRUE, FALSE, "Database", 500,
                      <<"Data integrity error">>, "orig"),
              Handler("SQLAlchemyError", TRUE, FALSE, "Database", 500,
                      <<"Error saving document category">>, "str") >>
      [] fname = "get_all" ->
           << Handler("Database", FALSE, FALSE, "Database", 500,
                      <<"Error retrieving all categories">>, "str") >>
      [] fname = "delete" ->
           << Handler("SQLAlchemyError", TRUE, FALSE, "Database", 500,
                      <<"Error deleting document category">>, "str") >>
      [] fname = "get_by_id" ->
           << Handler("SQLAlchemyError", TRUE, FALSE, "Database", 500,
                      <<"Error retrieving document category by ID">>, "str") >>
      [] fname = "get_pageable" ->
           << Handler("SQLAlchemyError", TRUE, FALSE, "Database", 500,
                      <<"Error retrieving paginated document categories">>,
                      "str") >>
      [] fname = "find" ->
           << Handler("SQLAlchemyError", TRUE, FALSE, "Database", 500,
                      <<"Error searching document categories">>, "str") >>
      [] fname = "exists_by" ->
           << Handler("InvalidField", FALSE, TRUE, "InvalidField", 400, <<>>,
                      "str"),
              Handler("AttributeError", TRUE, FALSE, "InvalidField", 400,
                      <<"Error in provided attributes">>, "str"),
              Handler("SQLAlchemyError", TRUE, FALSE, "Database", 500,
                      <<"Error checking document category existence">>,
                      "str") >>
      [] OTHER -> << >>

UsesDecorator(t) == t # "category"

Handlers(t, fname) ==
    IF UsesDecorator(t) THEN TransactionalHandlers(fname)
    ELSE CategoryHandlers(fname)

Min(a, b) == IF a <= b THEN a ELSE b

\* Faulty variant of the page count: the quotient is rounded down.
CeilDiv_Floor(a, b) == a \div b

\* math.ceil(a / b) for a >= 0, b > 0
CeilDiv(a, b) == (a + b - 1) \div b

\* The Pagination meta; an absent next or previous page is 0.
BuildMeta(total, page, size) ==
    LET total_pages == IF total > 0 THEN CeilDiv(total, size) ELSE 1
    IN [current_page |-> page, per_page |-> size, total |-> total,
        total_pages |-> total_pages,
        next_page |-> IF page < total_pages THEN page + 1 ELSE 0,
        previous_page |-> IF page > 1 THEN page - 1 ELSE 0]

\* Faulty variant of the data query: the LIMIT is missing.
Slice_NoLimit(rows, offset, size) == SubSeq(rows, offset + 1, Len(rows))

\* OFFSET offset LIMIT size over rows
Slice(rows, offset, size) ==
    SubSeq(rows, offset + 1, Min(offset + size, Len(rows)))

\* The data query, the count query and the Page of get_pageable and find
\* over the rows the statement selects.
Paginate(rows, page, size, fault) ==
    LET offset == (page - 1) * size
        q1 == <<LogOp("exec", 0)>>
        q2 == <<LogOp("exec", 0), LogOp("exec", 0)>>
        total == Len(rows)
    IN
    IF fault.at = "exec" THEN BodyRaise(FaultError(fault), q1, TRUE)
    ELSE IF offset < 0 \/ size < 0
    THEN BodyRaise(RawError("SQLAlchemyError", "negative offset or limit",
                            <<>>), q1, FALSE)
    ELSE IF fault.at = "count" THEN BodyRaise(FaultError(fault), q2, TRUE)
    ELSE IF total > 0 /\ size = 0
    THEN BodyRaise(RawError("Exception", "division by zero", <<>>), q2, FALSE)
    ELSE BodyOk(PageVal(Slice(rows, offset, size),
                        BuildMeta(total, page, size)), NoChange, q2)

Body_save(e) ==
    BodyOk(EntVal(e), Change(IF e.id = NoId THEN "insert" ELSE "update", e),
           <<LogOp("add", e.id)>>)

Body_get_all(d, fault) ==
    IF fault.at = "exec"
    THEN BodyRaise(FaultError(fault), <<LogOp("exec", 0)>>, TRUE)
    ELSE BodyOk(ListVal([i \in 1..Len(d) |-> EntVal(d[i])]), NoChange,
                <<LogOp("exec", 0)>>)

Body_get_by_id(id, d, fault) ==
    IF fault.at = "exec"
    THEN BodyRaise(FaultError(fault), <<LogOp("exec", 0)>>, TRUE)
    ELSE BodyOk(IF HasId(d, id) THEN EntVal(RowOf(d, id)) ELSE NoneVal,
                NoChange, <<LogOp("exec", 0)>>)

Repo_get_by_id(t, id, ctx, fault) ==
    Transactional(Handlers(t, "get_by_id"), ReadOnly("get_by_id"), "get_by_id",
                  Body_get_by_id(id, ctx.db, fault), ctx, fault)

\* Faulty variant of delete: an absent row is reported by returning False.
DeleteLoaded_ReturnFalse(id, g) ==
    IF ~g.ok THEN BodyRaise(g.exc, g.log, g.fired)
    ELSE IF g.val.tag = "none"
    THEN BodyOk(BoolVal(FALSE), NoChange, g.log)
    ELSE BodyOk(BoolVal(TRUE), Change("delete", g.val.e),
                g.log \o <<LogOp("delete", id)>>)

\* delete loads the row through the wrapped get_by_id; session.delete(None)
\* raises UnmappedInstanceError, an SQLAlchemyError.
DeleteLoaded(id, g) ==
    IF ~g.ok THEN BodyRaise(g.exc, g.log, g.fired)
    ELSE IF g.val.tag = "none"
    THEN BodyRaise(RawError("SQLAlchemyError", "unmapped instance", <<>>),
                   g.log \o <<LogOp("delete", 0)>>, FALSE)
    ELSE BodyOk(BoolVal(TRUE), Change("delete", g.val.e),
                g.log \o <<LogOp("delete", id)>>)

Body_delete(t, id, ctx, fault) ==
    DeleteLoaded(id, Repo_get_by_id(t, id, ctx, fault))

Body_get_pageable(page, size, d, fault) == Paginate(d, page, size, fault)

AllowedFields == {"nombre"}

\* A criterion is a record [key, ival, sval]: the value is ival for an
\* integer field and sval for a text field.
Crit(key, ival, sval) == [key |-> key, ival |-> ival, sval |-> sval]

\* The criteria of search_dict that become a condition.
Conditions(search_dict) ==
    {i \in 1..Len(search_dict) :
        /\ search_dict[i].sval # <<>>
        /\ search_dict[i].key \in AllowedFields}

\* Faulty variant of find: with no condition the statement selects no row.
Body_find_EmptyWhere(page, size, search_dict, d, fault) ==
    LET conds == Conditions(search_dict)
        match(r) == \E i \in conds :
                        Contains(Lower(r.nombre), Lower(search_dict[i].sval))
        rows == IF conds # {} THEN SelectSeq(d, match) ELSE <<>>
    IN Paginate(rows, page, size, fault)

\* The rows the statement of find selects: with conditions, the rows that
\* meet one of them; with none, every row.
FindRows(search_dict, d) ==
    LET conds == Conditions(search_dict)
        match(r) == \E i \in conds :
                        Contains(Lower(r.nombre), Lower(search_dict[i].sval))
    IN IF conds # {} THEN SelectSeq(d, match) ELSE d

Body_find(page, size, search_dict, d, fault) ==
    Paginate(FindRows(search_dict, d), page, size, fault)

\* The fields of the entity.
EntityFields == {"id", "nombre", "created_at", "updated_at"}

\* __tablename__ of the entity class.
TableName == <<"roles">>

\* Rol.__dict__.keys(): the fields and the other attributes of the class
\* body, of which __tablename__ stands for all.
ValidFields == EntityFields \cup {"__tablename__"}

FieldEq(r, c) ==
    CASE c.key = "id" -> r.id = c.ival
      [] c.key = "nombre" -> r.nombre = c.sval
      [] c.key = "created_at" -> r.created_at = c.ival
      [] c.key = "updated_at" -> r.updated_at = c.ival
      [] c.key = "__tablename__" -> TableName = c.sval
      [] OTHER -> FALSE

Body_exists_by(kwargs, d, fault) ==
    LET bad == {i \in 1..Len(kwargs) : kwargs[i].key \notin ValidFields} IN
    IF bad # {}
    THEN LET k == CHOOSE i \in bad : \A j \in bad : i <= j
         IN BodyRaise(InvalidFieldException(
                          <<"Field does not exist in the model", kwargs[k].key>>,
                          <<"Valid fields are">>), <<>>, FALSE)
    ELSE IF fault.at = "exec"
    THEN BodyRaise(FaultError(fault), <<LogOp("exec", 0)>>, TRUE)
    ELSE BodyOk(BoolVal(\E i \in 1..Len(d) :
                            \A j \in 1..Len(kwargs) : FieldEq(d[i], kwargs[j])),
                NoChange, <<LogOp("exec", 0)>>)

Repo_save(t, e, ctx, fault) ==
    Transactional(Handlers(t, "save"), ReadOnly("save"), "save", Body_save(e),
                  ctx, fault)

Repo_get_all(t, ctx, fault) ==
    Transactional(Handlers(t, "get_all"), ReadOnly("get_all"), "get_all",
                  Body_get_all(ctx.db, fault), ctx, fault)

Repo_delete(t, id, ctx, fault) ==
    WithArgs(Transactional(Handlers(t, "delete"), ReadOnly("delete"), "delete",
                           Body_delete(t, id, ctx, fault), ctx, fault),
             <<Crit("id", id, <<>>)>>)

Repo_get_pageable(t, page, size, ctx, fault) ==
    Transactional(Handlers(t, "get_pageable"), ReadOnly("get_pageable"),
                  "get_pageable",
                  Body_get_pageable(page, size, ctx.db, fault), ctx, fault)

Repo_find(t, page, size, search_dict, ctx, fault) ==
    Transactional(Handlers(t, "find"), ReadOnly("find"), "find",
                  Body_find(page, size, search_dict, ctx.db, fault), ctx, fault)

Repo_exists_by(t, kwargs, ctx, fault) ==
    WithArgs(Transactional(Handlers(t, "exists_by"), ReadOnly("exists_by"),
                           "exists_by", Body_exists_by(kwargs, ctx.db, fault),
                           ctx, fault),
             kwargs)

----------------------------------------------------------------------------
(* Storage faults a repository call can meet, per method *)

FaultsExec ==
    {NoFault} \cup {Fault("exec", c, 0) : c \in {"SQLAlchemyError", "Exception"}}

FaultsPage == FaultsExec \cup {Fault("count", "SQLAlchemyError", 0)}

FaultsCommit ==
    {Fault("commit", c, 0) : c \in {"IntegrityError", "SQLAlchemyError", "Exception"}}

FaultsSave ==
    {NoFault} \cup FaultsCommit
        \cup {Fault("refresh", c, 1) : c \in {"SQLAlchemyError", "Exception"}}

FaultsDelete == FaultsExec \cup FaultsCommit

----------------------------------------------------------------------------
(* The services *)

\* Faulty variant of handle_exceptions: the clause that re-raises the
\* taxonomy exceptions is missing.
HandleExceptions_WrapAll(e) ==
    IF IsA(e.cls, "AttributeError")
    THEN ServerException(<<"Error de implementacion">> \o StrOf(e))
    ELSE ServerException(StrOf(e))

\* handle_exceptions: a taxonomy exception passes unchanged, anything else
\* becomes a ServerException.
HandleExceptions(e) ==
    IF IsA(e.cls, "BaseHTTPException") THEN e
    ELSE IF IsA(e.cls, "AttributeError")
    THEN ServerException(<<"Error de implementacion">> \o StrOf(e))
    ELSE ServerException(StrOf(e))

\* The outcome of a service method: thrown is the exception raised inside
\* the method, exc the one that leaves the handle_exceptions wrapper.
NoOut == [status |-> "none", exc |-> NoExc, val |-> NoneVal, thrown |-> NoExc]

Raised(e) ==
    [status |-> "raised", exc |-> HandleExceptions(e), val |-> NoneVal,
     thrown |-> e]

Returned(v) == [status |-> "ok", exc |-> NoExc, val |-> v, thrown |-> NoExc]

\* The response DTO of an entity: id and created_at are required fields.
ResponseDTO(v) ==
    IF v.tag = "none"
    THEN Raised(RawError("AttributeError", "NoneType has no attribute", <<>>))
    ELSE IF v.e.id = NoId \/ v.e.created_at = NoTime
    THEN Raised(RawError("Exception", "validation error", <<>>))
    ELSE Returned(v)

MessageResponse(success, status_code) ==
    [tag |-> "message", success |-> success, status_code |-> status_code]

\* The emptiness test of find: the role and document-category services test
\* "data is None", the others "not data"; data is always a list.
NoResults(t, data) ==
    IF t \in {"role", "category"} THEN FALSE ELSE data = <<>>

\* Faulty variant of the validation: the size is not validated.
PagingError_PageOnly(page, size) ==
    IF page < 1
    THEN BadRequestException(<<"Invalid page number">>,
                             <<"Page number must be greater than 0.">>)
    ELSE NoExc

\* The page and size validation of the paginated list and the search.
PagingError(page, size) ==
    IF page < 1
    THEN BadRequestException(<<"Invalid page number">>,
                             <<"Page number must be greater than 0.">>)
    ELSE IF size < 1
    THEN BadRequestException(<<"Invalid size number">>,
                             <<"Size number must be greater than 0.">>)
    ELSE NoExc

\* No session: the request has none yet, or its session is closed.
NoSession == 0

\* Faulty variant of the session factory: one session object for all requests.
AsyncSessionLocal_Singleton(rq) == 1

\* AsyncSessionLocal(): a new session object, distinct from every session
\* that is in use.
AsyncSessionLocal(rq) ==
    CHOOSE s \in 1..Cardinality(Reqs) : \A r \in Reqs : rq[r].session # s

Idle ==
    [pc |-> "idle", op |-> "none", id |-> NoId, nombre |-> <<>>, page |-> 0,
     size |-> 0, term |-> <<>>, ent |-> NewEntity(<<>>), calls |-> <<>>,
     out |-> NoOut, faulted |-> FALSE, db0 |-> <<>>, session |-> NoSession]

NoCall ==
    [fn |-> "none", readonly |-> TRUE, ok |-> TRUE, val |-> NoneVal,
     bodyVal |-> NoneVal, exc |-> NoExc, caught |-> NoExc, log |-> <<>>,
     db |-> <<>>, nextId |-> 1, clock |-> 1, fired |-> FALSE, dbBefore |-> <<>>,
     args |-> <<>>]

FirstPc(op) ==
    CASE op = "create" -> "add_exists"
      [] op = "read_all" -> "all_get"
      [] op = "read_by_id" -> "byid_exists"
      [] op = "update" -> "upd_exists"
      [] op = "delete" -> "del_exists"
      [] op = "list" -> "page_get"
      [] op = "search" -> "find_get"

Ids == 1..(MaxId + 1)

\* The requests that can arrive: the operation and its arguments.
Arrivals ==
    {[Idle EXCEPT !.op = "create", !.nombre = n] : n \in NameSet}
    \cup {[Idle EXCEPT !.op = "read_all"]}
    \cup {[Idle EXCEPT !.op = "read_by_id", !.id = i] : i \in Ids}
    \cup {[Idle EXCEPT !.op = "update", !.id = i, !.nombre = n] :
            i \in Ids, n \in NameSet}
    \cup {[Idle EXCEPT !.op = "delete", !.id = i] : i \in Ids}
    \cup {[Idle EXCEPT !.op = "list", !.page = p, !.size = z] :
            p \in 0..MaxPage, z \in 0..MaxSize}
    \cup {[Idle EXCEPT !.op = "search", !.page = p, !.size = z, !.term = w] :
            p \in 0..MaxPage, z \in 0..MaxSize, w \in TermSet}

CurCtx == Ctx(db, nextId, clock)

\* The request r continues as q after the repository call R.
Called(r, R, key, q) ==
    /\ db' = R.db
    /\ nextId' = R.nextId
    /\ clock' = R.clock
    /\ last' = R
    /\ req' = [req EXCEPT ![r] =
                 [q EXCEPT !.calls = Append(req[r].calls, <<R.fn, key>>),
                           !.faulted = req[r].faulted \/ R.fired]]
    /\ UNCHANGED <<etype, hist>>

Finish(q, out) == [q EXCEPT !.pc = "done", !.out = out]

Goto(q, pc) == [q EXCEPT !.pc = pc]

\* A request arrives: its session is opened and the service method starts.
Begin(r) ==
    /\ req[r].pc = "idle"
    /\ \E a \in Arrivals :
         /\ a.op = "create" => nextId <= MaxId /\ clock <= MaxClock
         /\ a.op = "update" => clock <= MaxClock
         /\ req' = [req EXCEPT ![r] =
                      [a EXCEPT !.pc = FirstPc(a.op), !.db0 = db,
                                !.session = AsyncSessionLocal(req)]]
    /\ UNCHANGED <<etype, db, nextId, clock, last, hist>>

\* The uniqueness check on a name: Conflict if exists_by(nombre) holds.
AfterNameExists(q, R, next) ==
    IF ~R.ok THEN Finish(q, Raised(R.exc))
    ELSE IF R.val.b
    THEN Finish(q, Raised(ConflictException(
                     <<"name already exists">> \o q.nombre)))
    ELSE Goto(q, next)

\* Faulty variant of the create check: a taken name is not rejected.
AfterAddExists_NoConflict(q, R) ==
    IF ~R.ok THEN Finish(q, Raised(R.exc)) ELSE Goto(q, "add_save")

\* add_*: exists_by(nombre), Conflict if it holds
AfterAddExists(q, R) == AfterNameExists(q, R, "add_save")

AddExists(r) ==
    /\ req[r].pc = "add_exists"
    /\ \E f \in FaultsExec :
         LET q == req[r]
             R == Repo_exists_by(etype, <<Crit("nombre", 0, q.nombre)>>, CurCtx, f)
         IN Called(r, R, "nombre", AfterAddExists(q, R))

\* add_*: save of a new entity that has only its name
AddSave(r) ==
    /\ req[r].pc = "add_save"
    /\ \E f \in FaultsSave :
         LET q == req[r]
             R == Repo_save(etype, NewEntity(q.nombre), CurCtx, f)
         IN Called(r, R, "",
                   IF ~R.ok THEN Finish(q, Raised(R.exc))
                   ELSE Finish(q, ResponseDTO(R.val)))

\* get_all_*
GetAll(r) ==
    /\ req[r].pc = "all_get"
    /\ \E f \in FaultsExec :
         LET q == req[r]
             R == Repo_get_all(etype, CurCtx, f)
         IN Called(r, R, "",
                   IF ~R.ok THEN Finish(q, Raised(R.exc))
                   ELSE Finish(q, Returned(R.val)))

\* Faulty variant of the existence gate: a missing id is let through.
AfterIdExists_NoGate(q, R, next) ==
    IF ~R.ok THEN Finish(q, Raised(R.exc)) ELSE Goto(q, next)

\* The existence gate: NotFound unless exists_by(id) holds.
AfterIdExists(q, R, next) ==
    IF ~R.ok THEN Finish(q, Raised(R.exc))
    ELSE IF ~R.val.b
    THEN Finish(q, Raised(NotFoundException(<<"id not found">>)))
    ELSE Goto(q, next)

\* The exists_by(id) check that opens read-by-id, update and delete.
IdExists(r, pc, next) ==
    /\ req[r].pc = pc
    /\ \E f \in FaultsExec :
         LET q == req[r]
             R == Repo_exists_by(etype, <<Crit("id", q.id, <<>>)>>, CurCtx, f)
         IN Called(r, R, "id", AfterIdExists(q, R, next))

ByIdExists(r) == IdExists(r, "byid_exists", "byid_get")

\* get_*_by_id: get_by_id and the projection of the row
ByIdGet(r) ==
    /\ req[r].pc = "byid_get"
    /\ \E f \in FaultsExec :
         LET q == req[r]
             R == Repo_get_by_id(etype, q.id, CurCtx, f)
         IN Called(r, R, "",
                   IF ~R.ok THEN Finish(q, Raised(R.exc))
                   ELSE Finish(q, ResponseDTO(R.val)))

UpdExists(r) == IdExists(r, "upd_exists", "upd_get")

\* Faulty variant of the name comparison: the uniqueness check always runs.
AfterUpdGet_AlwaysCheck(q, R) ==
    IF ~R.ok THEN Finish(q, Raised(R.exc))
    ELSE IF R.val.tag = "none"
    THEN Finish(q, Raised(RawError("AttributeError",
                                   "NoneType has no attribute", <<>>)))
    ELSE Goto([q EXCEPT !.ent = R.val.e], "upd_name")

\* The name comparison of update: the uniqueness check runs only when the
\* requested name differs from the current one.
AfterUpdGet(q, R) ==
    IF ~R.ok THEN Finish(q, Raised(R.exc))
    ELSE IF R.val.tag = "none"
    THEN Finish(q, Raised(RawError("AttributeError",
                                   "NoneType has no attribute", <<>>)))
    ELSE IF R.val.e.nombre # q.nombre
    THEN Goto([q EXCEPT !.ent = R.val.e], "upd_name")
    ELSE Goto([q EXCEPT !.ent = R.val.e], "upd_save")

\* update_*: load the current entity and compare the names
UpdGet(r) ==
    /\ req[r].pc = "upd_get"
    /\ \E f \in FaultsExec :
         LET q == req[r]
             R == Repo_get_by_id(etype, q.id, CurCtx, f)
         IN Called(r, R, "", AfterUpdGet(q, R))

\* Faulty variant of the update check: a taken name is not rejected.
AfterUpdName_NoConflict(q, R) ==
    IF ~R.ok THEN Finish(q, Raised(R.exc)) ELSE Goto(q, "upd_save")

\* update_*: the name changes, exists_by(nombre), Conflict if it holds
AfterUpdName(q, R) == AfterNameExists(q, R, "upd_save")

UpdName(r) ==
    /\ req[r].pc = "upd_name"
    /\ \E f \in FaultsExec :
         LET q == req[r]
             R == Repo_exists_by(etype, <<Crit("nombre", 0, q.nombre)>>, CurCtx, f)
         IN Called(r, R, "nombre", AfterUpdName(q, R))

\* update_*: set the name, stamp updated_at with now, save
UpdSave(r) ==
    /\ req[r].pc = "upd_save"
    /\ \E f \in FaultsSave :
         LET q == req[r]
             e == [q.ent EXCEPT !.nombre = q.nombre, !.updated_at = clock]
             R == Repo_save(etype, e, Ctx(db, nextId, clock + 1), f)
         IN Called(r, R, "",
                   IF ~R.ok THEN Finish(q, Raised(R.exc))
                   ELSE Finish(q, ResponseDTO(R.val)))

DelExists(r) == IdExists(r, "del_exists", "del_delete")

\* Faulty variant of the answer of delete_*: the response is tested for
\* truth, not for being True.
AfterDelete_Truthy(q, R) ==
    IF ~R.ok THEN Finish(q, Raised(R.exc))
    ELSE IF R.val \notin {BoolVal(FALSE), NoneVal}
    THEN Finish(q, Returned(MessageResponse(TRUE, 200)))
    ELSE Finish(q, Returned(MessageResponse(FALSE, 500)))

\* The answer of delete_*: `if response is True` gives the success message,
\* anything else the failure message.
AfterDelete(q, R) ==
    IF ~R.ok THEN Finish(q, Raised(R.exc))
    ELSE IF R.val = BoolVal(TRUE)
    THEN Finish(q, Returned(MessageResponse(TRUE, 200)))
    ELSE Finish(q, Returned(MessageResponse(FALSE, 500)))

\* delete_*: delete and the message response
DelDelete(r) ==
    /\ req[r].pc = "del_delete"
    /\ \E f \in FaultsDelete :
         LET q == req[r]
             R == Repo_delete(etype, q.id, CurCtx, f)
         IN Called(r, R, "", AfterDelete(q, R))

\* A service method that raises before it calls the repository.
Rejected(r, e) ==
    /\ req' = [req EXCEPT ![r] = Finish(req[r], Raised(e))]
    /\ UNCHANGED <<etype, db, nextId, clock, last, hist>>

\* get_paginated_*: validation, get_pageable
PageGet(r) ==
    /\ req[r].pc = "page_get"
    /\ LET q == req[r]
           bad == PagingError(q.page, q.size)
       IN IF bad.cls # "none" THEN Rejected(r, bad)
          ELSE \E f \in FaultsPage :
                 LET R == Repo_get_pageable(etype, q.page, q.size, CurCtx, f)
                 IN Called(r, R, "",
                           IF ~R.ok THEN Finish(q, Raised(R.exc))
                           ELSE Finish(q, Returned(R.val)))

\* find: validation, find with the criteria {nombre: term}, NotFound when
\* the emptiness test holds
FindGet(r) ==
    /\ req[r].pc = "find_get"
    /\ LET q == req[r]
           bad == PagingError(q.page, q.size)
       IN IF bad.cls # "none" THEN Rejected(r, bad)
          ELSE \E f \in FaultsPage :
                 LET R == Repo_find(etype, q.page, q.size,
                                    <<Crit("nombre", 0, q.term)>>, CurCtx, f)
                 IN Called(r, R, "",
                           IF ~R.ok THEN Finish(q, Raised(R.exc))
                           ELSE IF NoResults(etype, R.val.data)
                           THEN Finish(q, Raised(NotFoundException(
                                    <<"nothing found with the search term">>
                                        \o q.term)))
                           ELSE Finish(q, Returned(R.val)))

\* The response is sent and the session of the request is closed.
Respond(r) ==
    /\ req[r].pc = "done"
    /\ req' = [req EXCEPT ![r] = Idle]
    /\ last' = NoCall
    /\ UNCHANGED <<etype, db, nextId, clock, hist>>

Init ==
    /\ etype \in EntityTypes
    /\ db = <<>>
    /\ nextId = 1
    /\ clock = 1
    /\ req = [r \in Reqs |-> Idle]
    /\ last = NoCall
    /\ hist = <<>>

Step(r) ==
    \/ Begin(r)
    \/ AddExists(r)
    \/ AddSave(r)
    \/ GetAll(r)
    \/ ByIdExists(r)
    \/ ByIdGet(r)
    \/ UpdExists(r)
    \/ UpdGet(r)
    \/ UpdName(r)
    \/ UpdSave(r)
    \/ DelExists(r)
    \/ DelDelete(r)
    \/ PageGet(r)
    \/ FindGet(r)
    \/ Respond(r)

\* Requests served one at a time: one request slot is in use.
Serial == {"r1"}

Next == \E r \in Serial : Step(r)

Spec == Init /\ [][Next]_vars

----------------------------------------------------------------------------
(* The repositories called directly, as the repository tests call them,    *)
(* and the decorator applied to an arbitrary wrapped function.             *)

\* The repository call R was made; no other direct call is in progress.
Direct(R) ==
    /\ last.fn = "none"
    /\ \A r \in Reqs : req[r].pc = "idle"
    /\ db' = R.db
    /\ nextId' = R.nextId
    /\ clock' = R.clock
    /\ last' = R
    /\ UNCHANGED <<etype, req, hist>>

\* Entities a caller can pass to save: a new one, or one loaded in the
\* session (its row may be gone since) whose name and updated_at were set.
SaveArgs ==
    {NewEntity(n) : n \in NameSet}
    \cup {IF HasId(db, i)
          THEN [RowOf(db, i) EXCEPT !.nombre = n, !.updated_at = clock]
          ELSE Entity(i, n, 1, clock) : i \in Ids, n \in NameSet}

KwargsSet ==
    LET one == {Crit("id", i, <<>>) : i \in Ids}
                \cup {Crit("nombre", 0, n) : n \in NameSet}
                \cup {Crit("campo_inexistente", 0, <<"v">>)}
                \cup {Crit("__tablename__", 0, TableName)}
    IN {<<c>> : c \in one}
        \cup {<<Crit("id", 1, <<>>), c>> : c \in one \ {Crit("id", 1, <<>>)}}

SearchDicts ==
    {<<Crit("nombre", 0, w)>> : w \in TermSet}
    \cup {<<Crit("id", 0, <<"1">>)>>}
    \cup {<<Crit("nombre", 0, <<"z", "z">>), Crit("nombre2", 0, <<"s", "e">>)>>}

DirectSave ==
    \E e \in SaveArgs, f \in FaultsSave :
        /\ nextId <= MaxId
        /\ clock <= MaxClock
        /\ Direct(Repo_save(etype, e, Ctx(db, nextId,
                     IF e.id = NoId THEN clock ELSE clock + 1), f))

DirectGetAll == \E f \in FaultsExec : Direct(Repo_get_all(etype, CurCtx, f))

DirectGetById ==
    \E i \in Ids, f \in FaultsExec : Direct(Repo_get_by_id(etype, i, CurCtx, f))

DirectDelete ==
    \E i \in Ids, f \in FaultsDelete : Direct(Repo_delete(etype, i, CurCtx, f))

DirectGetPageable ==
    \E p \in 0..MaxPage, z \in 0..MaxSize, f \in FaultsPage :
        Direct(Repo_get_pageable(etype, p, z, CurCtx, f))

DirectFind ==
    \E p \in 0..MaxPage, z \in 0..MaxSize, sd \in SearchDicts, f \in FaultsPage :
        Direct(Repo_find(etype, p, z, sd, CurCtx, f))

DirectExistsBy ==
    \E kw \in KwargsSet, f \in FaultsExec :
        Direct(Repo_exists_by(etype, kw, CurCtx, f))

\* Sequences of at most n elements of S
RECURSIVE SeqsUpTo(_, _)
SeqsUpTo(S, n) ==
    IF n = 0 THEN {<<>>}
    ELSE LET shorter == SeqsUpTo(S, n - 1)
         IN shorter \cup {Append(q, x) : q \in shorter, x \in S}

\* What a wrapped function can do: return None, a non-entity, an entity, a
\* list, or raise a raw or a taxonomy exception.  The entities are the first
\* and the last stored row and, outside lists, one that has no row.
WrappedBodies ==
    LET rows == {EntVal(db[i]) : i \in {1, Len(db)} \cap DOMAIN db}
        ents == rows \cup {EntVal(Entity(MaxId + 1, NameUser, 1, NoTime))}
        items == rows \cup {BoolVal(TRUE)}
        typed == {Exc(k, 0, <<"raised inside">>, <<"d">>) : k \in TaxonomyKinds}
        raw == {RawError(k, "raised inside",
                         IF k = "IntegrityError" THEN <<"driver detail">>
                         ELSE <<>>) : k \in RawKinds}
    IN {BodyOk(v, NoChange, <<>>) : v \in {NoneVal, BoolVal(TRUE)} \cup ents}
        \cup {BodyOk(ListVal(l), NoChange, <<>>) : l \in SeqsUpTo(items, MaxList)}
        \cup {BodyRaise(e, <<>>, FALSE) : e \in typed \cup raw}

\* The storage faults of a call: none can occur in a read-only call whose
\* body made no round trip; in a mutating one the commit or the n-th refresh
\* can fail.
FaultsAny(readonly) ==
    IF readonly THEN {NoFault}
    ELSE {NoFault} \cup FaultsCommit
            \cup {Fault("refresh", "SQLAlchemyError", n) : n \in 1..MaxList}

\* transactional(readonly)(func) called, for an arbitrary func of a
\* repository that uses the decorator
ApplyTransactional ==
    /\ UsesDecorator(etype)
    /\ \E ro \in BOOLEAN, B \in WrappedBodies :
         \E f \in FaultsAny(ro) :
            Direct(Transactional(TransactionalHandlers("func"), ro, "func", B,
                                 CurCtx, f))

\* The caller of a direct call takes its result.
DirectReturn ==
    /\ last.fn # "none"
    /\ \A r \in Reqs : req[r].pc = "idle"
    /\ last' = NoCall
    /\ UNCHANGED <<etype, db, nextId, clock, req, hist>>

NextRepo ==
    \/ DirectReturn
    \/ DirectSave
    \/ DirectGetAll
    \/ DirectGetById
    \/ DirectDelete
    \/ DirectGetPageable
    \/ DirectFind
    \/ DirectExistsBy
    \/ ApplyTransactional

\* The repositories of department, documentary topic and settlement are the
\* role repository with the entity renamed.
RepoTypes == {"role", "category"}

InitRepo == Init /\ etype \in RepoTypes

SpecRepo == InitRepo /\ [][NextRepo]_vars

----------------------------------------------------------------------------
(* Properties *)

\* The positions of the calls of the repository method fname by a request.
CallsOf(q, fname) == {i \in 1..Len(q.calls) : q.calls[i][1] = fname}

\* The positions of the session operation op in a log.
OpsOf(log, op) == {i \in 1..Len(log) : log[i][1] = op}

Finished(q, op) == q.pc = "done" /\ q.op = op

RaisedKind(q, cls, code) ==
    q.out.status = "raised" /\ q.out.exc.cls = cls /\ q.out.exc.code = code

\* C1: a create whose name equals, character for character, the name of a
\* stored row never calls save and leaves the table as it was, and, unless
\* the storage fails under the existence query, it raises Conflict (409).
C1_CreateDuplicateConflicts ==
    \A r \in Reqs :
        LET q == req[r] IN
        (Finished(q, "create") /\ NameTaken(q.db0, q.nombre, NoId)) =>
            /\ CallsOf(q, "save") = {}
            /\ db = q.db0
            /\ ~q.faulted => RaisedKind(q, "Conflict", 409)

C1_Witness ==
    \E r \in Reqs :
        /\ Finished(req[r], "create")
        /\ NameTaken(req[r].db0, req[r].nombre, NoId)
        /\ RaisedKind(req[r], "Conflict", 409)

\* C2: read-by-id, update and delete of an id that has no stored row never
\* call get_by_id, save or delete and leave the table as it was, and, unless
\* the storage fails under the existence query, they raise NotFound (404).
C2_MissingIdNotFound ==
    \A r \in Reqs :
        LET q == req[r] IN
        (/\ q.pc = "done"
         /\ q.op \in {"read_by_id", "update", "delete"}
         /\ ~HasId(q.db0, q.id)) =>
            /\ CallsOf(q, "get_by_id") = {}
            /\ CallsOf(q, "save") = {}
            /\ CallsOf(q, "delete") = {}
            /\ db = q.db0
            /\ ~q.faulted => RaisedKind(q, "NotFound", 404)

C2_Witness ==
    \E r \in Reqs :
        /\ Finished(req[r], "delete")
        /\ db # <<>>
        /\ ~HasId(req[r].db0, req[r].id)
        /\ RaisedKind(req[r], "NotFound", 404)

\* C3: an update of a stored row to the name it already has never performs
\* exists_by(nombre) and never raises Conflict; unless the storage fails, it
\* makes one exists_by call (the id check), calls save once and succeeds.
C3_SelfUpdateNoConflict ==
    \A r \in Reqs :
        LET q == req[r] IN
        (/\ Finished(q, "update")
         /\ HasId(q.db0, q.id)
         /\ RowOf(q.db0, q.id).nombre = q.nombre) =>
            /\ \A i \in CallsOf(q, "exists_by") : q.calls[i][2] = "id"
            /\ q.out.exc.cls # "Conflict"
            /\ ~q.faulted =>
                 /\ q.out.status = "ok"
                 /\ Cardinality(CallsOf(q, "exists_by")) = 1
                 /\ Cardinality(CallsOf(q, "save")) = 1
                 /\ q.out.val.e.nombre = q.nombre
                 /\ q.out.val.e.updated_at # NoTime

C3_Witness ==
    \E r \in Reqs :
        /\ Finished(req[r], "update")
        /\ HasId(req[r].db0, req[r].id)
        /\ RowOf(req[r].db0, req[r].id).nombre = req[r].nombre
        /\ NameTaken(req[r].db0, req[r].nombre, NoId)
        /\ req[r].out.status = "ok"
        /\ Cardinality(CallsOf(req[r], "save")) = 1

\* C4: an update of a stored row to a name that differs from its own and
\* that another stored row holds never calls save and leaves the table, the
\* row and its updated_at as they were, and, unless the storage fails under
\* a query, it raises Conflict (409).
C4_UpdateToTakenNameConflicts ==
    \A r \in Reqs :
        LET q == req[r] IN
        (/\ Finished(q, "update")
         /\ HasId(q.db0, q.id)
         /\ RowOf(q.db0, q.id).nombre # q.nombre
         /\ NameTaken(q.db0, q.nombre, q.id)) =>
            /\ CallsOf(q, "save") = {}
            /\ db = q.db0
            /\ RowOf(db, q.id) = RowOf(q.db0, q.id)
            /\ ~q.faulted => RaisedKind(q, "Conflict", 409)

C4_Witness ==
    \E r \in Reqs :
        /\ Finished(req[r], "update")
        /\ HasId(req[r].db0, req[r].id)
        /\ RowOf(req[r].db0, req[r].id).nombre # req[r].nombre
        /\ NameTaken(req[r].db0, req[r].nombre, req[r].id)
        /\ RaisedKind(req[r], "Conflict", 409)

\* The rows a search term selects: all rows for an empty term, else the
\* rows whose name contains the term, letter case ignored.
Matching(d, term) ==
    SelectSeq(d, LAMBDA x : term = <<>> \/ Contains(Lower(x.nombre), Lower(term)))

\* C5: for every entity type, a search that selects no row raises NotFound
\* naming the search term, and no search returns a page without rows.
C5_EmptySearchRaisesNotFound ==
    \A r \in Reqs :
        LET q == req[r] IN
        (Finished(q, "search") /\ ~q.faulted /\ q.page >= 1 /\ q.size >= 1) =>
            /\ Matching(q.db0, q.term) = <<>> =>
                 /\ RaisedKind(q, "NotFound", 404)
                 /\ q.out.exc.details =
                        <<"nothing found with the search term">> \o q.term
            /\ q.out.status = "ok" => q.out.val.data # <<>>

\* C6: a paginated list or a search with page < 1 or size < 1 raises
\* BadRequest (400) and invokes no repository method.
C6_InvalidPagingBadRequest ==
    \A r \in Reqs :
        LET q == req[r] IN
        (/\ q.pc = "done"
         /\ q.op \in {"list", "search"}
         /\ (q.page < 1 \/ q.size < 1)) =>
            /\ RaisedKind(q, "BadRequest", 400)
            /\ q.calls = <<>>
            /\ last = NoCall
            /\ db = q.db0

C6_Witness ==
    \E r \in Reqs :
        /\ Finished(req[r], "search")
        /\ req[r].page >= 1
        /\ req[r].size < 1
        /\ db # <<>>
        /\ RaisedKind(req[r], "BadRequest", 400)

\* The ids of the entities refreshed in a log, in order.
RefreshIds(log) ==
    LET rs == SelectSeq(log, LAMBDA x : x[1] = "refresh")
    IN [i \in 1..Len(rs) |-> rs[i][2]]

\* The entities of a result: the result itself, or the entities of a list.
EntitiesOf(v) ==
    IF v.tag = "entity" THEN <<v.e>>
    ELSE IF v.tag = "list"
    THEN LET es == SelectSeq(v.items, HasTable)
         IN [i \in 1..Len(es) |-> es[i].e]
    ELSE <<>>

ReadOnlyMethods == {"get_all", "get_by_id", "get_pageable", "find", "exists_by"}

\* The last repository call went through the transactional decorator.
Decorated == last.fn = "func" \/ (last.fn # "none" /\ UsesDecorator(etype))

\* C7: a mutating repository call that succeeds has committed exactly once,
\* has refreshed after that commit each entity of its result once and in
\* order (the entity itself, or each entity of a list; nothing for another
\* result), has not rolled back, and returns the entities as stored.
C7_CommitThenRefresh ==
    (last.fn # "none" /\ last.ok /\ ~last.readonly) =>
        /\ Cardinality(OpsOf(last.log, "commit")) = 1
        /\ \A i \in OpsOf(last.log, "refresh") :
             \A c \in OpsOf(last.log, "commit") : c < i
        /\ RefreshIds(last.log) =
             [i \in 1..Len(EntitiesOf(last.val)) |-> EntitiesOf(last.val)[i].id]
        /\ OpsOf(last.log, "rollback") = {}
        /\ \A i \in 1..Len(EntitiesOf(last.val)) :
             LET e == EntitiesOf(last.val)[i]
             IN HasId(db, e.id) /\ RowOf(db, e.id) = e

C7_Witness ==
    /\ last.fn = "func"
    /\ last.ok
    /\ ~last.readonly
    /\ last.val.tag = "list"
    /\ Len(last.val.items) = 2
    /\ Len(RefreshIds(last.log)) = 1
    /\ Cardinality(OpsOf(last.log, "commit")) = 1

\* C8: a read-only repository call that succeeds has made no commit, no
\* refresh and no rollback, returns the result of the wrapped body as it
\* is, and leaves the table as it was.
C8_ReadOnlyNoCommit ==
    (/\ last.ok
     /\ \/ last.fn \in ReadOnlyMethods
        \/ last.fn = "func" /\ last.readonly) =>
        /\ OpsOf(last.log, "commit") = {}
        /\ OpsOf(last.log, "refresh") = {}
        /\ OpsOf(last.log, "rollback") = {}
        /\ last.val = last.bodyVal
        /\ db = last.dbBefore

C8_Witness ==
    /\ last.ok
    /\ last.fn = "get_all"
    /\ last.val.tag = "list"
    /\ Len(last.val.items) = 2

C10_TypedExceptionUnchanged ==
    (Decorated /\ IsTyped(last.caught)) => last.exc = last.caught

\* The mutating repository calls that go through the transaction wrapper:
\* the decorated ones and the save of the document-category repository,
\* which spells the same try/except out.
WrappedMutating ==
    /\ last.fn # "none"
    /\ ~last.readonly
    /\ Decorated \/ last.fn = "save"

RepositoryMethods ==
    {"save", "delete"} \cup ReadOnlyMethods

\* C12: an exception that leaves a repository method, of any entity type, is
\* a Database or an InvalidField error; no raw driver error and no other
\* kind leaves the repository.
C12_RepositoryRaisesOnlyDatabaseOrInvalidField ==
    (last.fn \in RepositoryMethods /\ ~last.ok) =>
        last.exc.cls \in {"Database", "InvalidField"}

\* C13: an exception that leaves a service method is an instance of the
\* taxonomy; a taxonomy exception raised inside the method (by the service
\* itself or by the repository it called) leaves as it was raised, with the
\* same kind, code, message and details; any other failure, an attribute
\* error included, leaves as a Server error (500) carrying its text.
C13_ServiceRaisesOnlyTaxonomy ==
    \A r \in Reqs :
        LET q == req[r] IN
        (q.pc = "done" /\ q.out.status = "raised") =>
            /\ IsTyped(q.out.exc)
            /\ q.out.thrown.cls # "none"
            /\ (last.fn # "none" /\ ~last.ok) => q.out.thrown = last.exc
            /\ IsTyped(q.out.thrown) => q.out.exc = q.out.thrown
            /\ ~IsTyped(q.out.thrown) =>
                   /\ q.out.exc.cls = "Server"
                   /\ q.out.exc.code = 500
                   /\ \E pre \in {<<>>, <<"Error de implementacion">>} :
                          q.out.exc.details = pre \o StrOf(q.out.thrown)

C13_Witness ==
    \E r \in Reqs :
        /\ req[r].pc = "done"
        /\ req[r].out.thrown.cls \in RawKinds
        /\ req[r].out.thrown = last.exc
        /\ req[r].out.exc.cls = "Server"
        /\ req[r].out.exc.code = 500

----------------------------------------------------------------------------
(* Two requests served at the same time, each with its own session: the    *)
(* repository calls of the two service methods interleave.  The table      *)
(* holds the rows of earlier creates.                                      *)

\* The requests that change the table.
Mutations ==
    {a \in Arrivals : a.op \in {"create", "update", "delete"}}

\* A mutating request arrives while the other slot may be in use.
BeginMutation(r) ==
    /\ req[r].pc = "idle"
    /\ \E a \in Mutations :
         /\ a.op = "create" => nextId <= MaxId /\ clock <= MaxClock
         /\ a.op = "update" => clock <= MaxClock
         /\ req' = [req EXCEPT ![r] =
                      [a EXCEPT !.pc = FirstPc(a.op), !.db0 = db,
                                !.session = AsyncSessionLocal(req)]]
    /\ UNCHANGED <<etype, db, nextId, clock, last, hist>>

\* The end of the request: the response or the exception has left the
\* service and the session dependency closes the session.
CloseSession(r) ==
    /\ req[r].pc = "done"
    /\ req' = [req EXCEPT ![r] =
                 [req[r] EXCEPT !.pc = "closed", !.session = NoSession]]
    /\ UNCHANGED <<etype, db, nextId, clock, last, hist>>

StepConc(r) ==
    \/ BeginMutation(r)
    \/ AddExists(r)
    \/ AddSave(r)
    \/ UpdExists(r)
    \/ UpdGet(r)
    \/ UpdName(r)
    \/ UpdSave(r)
    \/ DelExists(r)
    \/ DelDelete(r)
    \/ CloseSession(r)

NextConc == \E r \in Reqs : StepConc(r)

\* The table after the first k names of SeedNames were created in order.
SeedNames == <<NameAdmin, NameUser>>

Seeded(k) == [i \in 1..k |-> Entity(i, SeedNames[i], i, NoTime)]

InitConc ==
    /\ etype = "role"
    /\ \E k \in 0..Len(SeedNames) :
         /\ db = Seeded(k)
         /\ nextId = k + 1
         /\ clock = k + 1
    /\ req = [r \in Reqs |-> Idle]
    /\ last = NoCall
    /\ hist = <<>>

SpecConc == InitConc /\ [][NextConc]_vars

\* The request q is over: its outcome is fixed.
Over(q) == q.pc \in {"done", "closed"}

\* The two requests are creates with the same valid name, a name that no row
\* had when either of them arrived, and no storage fault hit them.
SameNameRace ==
    /\ \A r \in Reqs :
          /\ req[r].op = "create"
          /\ req[r].nombre = req["r1"].nombre
          /\ Len(req[r].nombre) > NameFloor
          /\ ~NameTaken(req[r].db0, req[r].nombre, NoId)
          /\ ~req[r].faulted

\* C14: of two concurrent creates with the same unused name exactly one
\* succeeds and the other ends with a Database or a Conflict error, whatever
\* the interleaving; exactly one row with the name is stored; neither
\* request repeats a repository call (no retry), and a request that is not
\* over can always take its next step (it waits for nothing).
C14_SameNameRaceOneWinner ==
    /\ (SameNameRace /\ \A r \in Reqs : Over(req[r])) =>
          /\ Cardinality({r \in Reqs : req[r].out.status = "ok"}) = 1
          /\ \A r \in Reqs :
                \/ /\ req[r].out.status = "ok"
                   /\ req[r].out.val.e.nombre = req[r].nombre
                \/ /\ req[r].out.status = "raised"
                   /\ req[r].out.exc.cls \in {"Database", "Conflict"}
          /\ Cardinality({i \in 1..Len(db) :
                             db[i].nombre = req["r1"].nombre}) = 1
    /\ SameNameRace =>
          \A r \in Reqs :
             /\ Cardinality(CallsOf(req[r], "exists_by")) <= 1
             /\ Cardinality(CallsOf(req[r], "save")) <= 1
             /\ Len(req[r].calls) <= 2
             /\ ~Over(req[r]) => ENABLED StepConc(r)

\* Both creates passed the uniqueness check before either saved: the loser
\* ends with the Database error of the unique index.
C14_Witness ==
    /\ SameNameRace
    /\ \A r \in Reqs : Over(req[r]) /\ Len(req[r].calls) = 2
    /\ req["r1"].out.status = "ok"
    /\ req["r2"].out.exc.cls = "Database"
    /\ req["r2"].out.exc.details = <<"unique violation">>

\* C15: in every state of the table, after any sequence and interleaving of
\* create, update and delete requests, no two stored rows share a name.
C15_NamesUnique ==
    \A i, j \in 1..Len(db) : i # j => db[i].nombre # db[j].nombre

\* An update passed the service's name check and lost to a request that
\* stored the same name first: the index refused it, the table keeps two
\* rows with different names.
C15_Witness ==
    /\ Len(db) >= 2
    /\ \E r \in Reqs :
          /\ req[r].op = "update"
          /\ Over(req[r])
          /\ ~req[r].faulted
          /\ CallsOf(req[r], "save") # {}
          /\ req[r].out.exc.cls = "Database"
          /\ req[r].out.exc.details = <<"unique violation">>
          /\ NameTaken(db, req[r].nombre, req[r].id)

C18_PaginationMeta ==
    (last.fn \in {"get_pageable", "find"} /\ last.ok) =>
        LET m == last.val.meta IN
        /\ last.val.tag = "page"
        /\ m.total >= 0
        /\ last.fn = "get_pageable" => m.total = Len(db)
        /\ (m.per_page >= 1 /\ m.current_page >= 1) =>
              /\ m.total_pages >= 1
              /\ m.total = 0 => m.total_pages = 1
              /\ m.total > 0 =>
                    /\ m.total_pages * m.per_page >= m.total
                    /\ (m.total_pages - 1) * m.per_page < m.total
              /\ m.next_page =
                    IF m.current_page < m.total_pages
                    THEN m.current_page + 1 ELSE 0
              /\ m.previous_page =
                    IF m.current_page > 1 THEN m.current_page - 1 ELSE 0

\* The last of two pages of one row each: no next page, previous page 1.
C18_Witness ==
    /\ last.fn \in {"get_pageable", "find"}
    /\ last.ok
    /\ last.val.meta.total = 2
    /\ last.val.meta.per_page = 1
    /\ last.val.meta.current_page = 2
    /\ last.val.meta.total_pages = 2
    /\ last.val.meta.next_page = 0
    /\ last.val.meta.previous_page = 1
    /\ Len(last.val.data) = 1

----------------------------------------------------------------------------
(* The role scenario: a fixed script of requests served one after another  *)
(* on an empty table; hist keeps the outcome of each request served.       *)

\* The id no role has.
MissingRole == 999

\* The requests of the scenario, in order; the fourth stores "Usuario", which
\* the fifth needs as role 2.
Script ==
    << [Idle EXCEPT !.op = "create", !.nombre = NameAdmin],
       [Idle EXCEPT !.op = "create", !.nombre = NameAdmin],
       [Idle EXCEPT !.op = "update", !.id = 1, !.nombre = NameAdmin],
       [Idle EXCEPT !.op = "create", !.nombre = NameUser],
       [Idle EXCEPT !.op = "update", !.id = 1, !.nombre = NameUser],
       [Idle EXCEPT !.op = "delete", !.id = MissingRole] >>

\* The next request of the script arrives.
BeginScript(r) ==
    /\ req[r].pc = "idle"
    /\ Len(hist) < Len(Script)
    /\ req' = [req EXCEPT ![r] =
                 [Script[Len(hist) + 1] EXCEPT
                     !.pc = FirstPc(Script[Len(hist) + 1].op),
                     !.db0 = db, !.session = AsyncSessionLocal(req)]]
    /\ UNCHANGED <<etype, db, nextId, clock, last, hist>>

\* The request leaves: its outcome is recorded with the table before and
\* after it.
RespondScript(r) ==
    /\ req[r].pc = "done"
    /\ hist' = Append(hist, [out |-> req[r].out, faulted |-> req[r].faulted,
                             before |-> req[r].db0, after |-> db])
    /\ req' = [req EXCEPT ![r] = Idle]
    /\ last' = NoCall
    /\ UNCHANGED <<etype, db, nextId, clock>>

\* The steps of the scripted requests; the delete of the script asks for an
\* id that is never stored, so the repository's delete is not among them.
StepScript(r) ==
    \/ BeginScript(r)
    \/ AddExists(r)
    \/ AddSave(r)
    \/ UpdExists(r)
    \/ UpdGet(r)
    \/ UpdName(r)
    \/ UpdSave(r)
    \/ DelExists(r)
    \/ RespondScript(r)

NextScript == \E r \in Serial : StepScript(r)

InitScript == Init /\ etype = "role"

SpecScript == InitScript /\ [][NextScript]_vars

\* The outcome the scenario expects of its i-th request.
Succeeded(h, id, nombre) ==
    /\ h.out.status = "ok"
    /\ h.out.val.tag = "entity"
    /\ h.out.val.e.id = id
    /\ h.out.val.e.nombre = nombre
    /\ HasId(h.after, id)
    /\ RowOf(h.after, id) = h.out.val.e

Failed(h, cls, code) ==
    /\ h.out.status = "raised"
    /\ h.out.exc.cls = cls
    /\ h.out.exc.code = code
    /\ h.after = h.before

Expected(i, h) ==
    CASE i = 1 -> Succeeded(h, 1, NameAdmin)
      [] i = 2 -> Failed(h, "Conflict", 409)
      [] i = 3 -> Succeeded(h, 1, NameAdmin) /\ h.out.val.e.updated_at # NoTime
      [] i = 4 -> Succeeded(h, 2, NameUser)
      [] i = 5 -> Failed(h, "Conflict", 409)
      [] i = 6 -> Failed(h, "NotFound", 404)

NoFaultSoFar == \A i \in 1..Len(hist) : ~hist[i].faulted

\* C19: in the role scenario run in order on an empty table, with no storage
\* fault: creating "Administrador" succeeds with id 1; creating it again
\* raises Conflict (409); updating role 1 to "Administrador" succeeds;
\* with "Usuario" stored as role 2, updating role 1 to "Usuario" raises
\* Conflict (409); deleting role 999 raises NotFound (404); each failed
\* step leaves the table as it found it.
C19_RoleScenario ==
    NoFaultSoFar => \A i \in 1..Len(hist) : Expected(i, hist[i])

C19_Witness ==
    /\ Len(hist) = Len(Script)
    /\ NoFaultSoFar
    /\ Len(db) = 2
    /\ hist[6].out.exc.cls = "NotFound"
    /\ hist[5].out.exc.cls = "Conflict"
    /\ hist[2].out.exc.cls = "Conflict"

\* What the paginated list of the service answers for the page and size of
\* the request q on the table d, with no storage fault.
ListOf(q, d) ==
    Repo_get_pageable(etype, q.page, q.size, Ctx(d, nextId, clock), NoFault)

\* A finished search with an empty term and a valid page and size, which no
\* storage fault hit.
EmptyTermSearch(q) ==
    /\ Finished(q, "search")
    /\ q.term = <<>>
    /\ q.page >= 1
    /\ q.size >= 1
    /\ ~q.faulted

SameAsList(q, R) ==
    /\ R.ok
    /\ q.out.status = "ok"
    /\ q.out.val.tag = "page"
    /\ q.out.val.data = R.val.data
    /\ q.out.val.meta = R.val.meta

KeysOf(kwargs) == {kwargs[i].key : i \in 1..Len(kwargs)}

\* C21: an exists_by call with a key that does not name a field of the
\* entity raises InvalidField (400) and issues no query, also when its
\* other keys are valid.
C21_UnknownKeyRejected ==
    (last.fn = "exists_by" /\ KeysOf(last.args) \ EntityFields # {}) =>
        /\ ~last.ok
        /\ last.exc.cls = "InvalidField"
        /\ last.exc.code = 400
        /\ OpsOf(last.log, "exec") = {}

\* The id the last delete call was made with.
DeletedId == last.args[1].ival

----------------------------------------------------------------------------
(* The delete method of the services against a mocked repository, as the   *)
(* service tests run it: exists_by and delete answer whatever the mock is  *)
(* set to.                                                                 *)

IntVal(n) == [tag |-> "int", n |-> n]

\* What AsyncMock(return_value=...) can be set to return from delete.
MockReturns == {BoolVal(TRUE), BoolVal(FALSE), NoneVal, IntVal(1)}

\* What AsyncMock(side_effect=...) can be set to raise.
MockRaises ==
    {DatabaseException(<<"mocked">>, <<>>),
     RawError("Exception", "mocked", <<>>)}

\* The record of a call of the mocked method fname.
MockCall(fname, id, val, exc) ==
    [NoCall EXCEPT !.fn = fname, !.ok = (exc.cls = "none"), !.val = val,
                   !.exc = exc, !.db = db, !.nextId = nextId, !.clock = clock,
                   !.dbBefore = db, !.args = <<Crit("id", id, <<>>)>>]

BeginDelete(r) ==
    /\ req[r].pc = "idle"
    /\ \E i \in Ids :
         req' = [req EXCEPT ![r] =
                   [Idle EXCEPT !.op = "delete", !.id = i,
                                !.pc = FirstPc("delete"), !.db0 = db,
                                !.session = AsyncSessionLocal(req)]]
    /\ UNCHANGED <<etype, db, nextId, clock, last, hist>>

MockExists(r) ==
    /\ req[r].pc = "del_exists"
    /\ \/ \E b \in BOOLEAN :
            Called(r, MockCall("exists_by", req[r].id, BoolVal(b), NoExc), "id",
                   AfterIdExists(req[r],
                                 MockCall("exists_by", req[r].id, BoolVal(b),
                                          NoExc), "del_delete"))
       \/ \E e \in MockRaises :
            Called(r, MockCall("exists_by", req[r].id, NoneVal, e), "id",
                   AfterIdExists(req[r],
                                 MockCall("exists_by", req[r].id, NoneVal, e),
                                 "del_delete"))

MockDelete(r) ==
    /\ req[r].pc = "del_delete"
    /\ \/ \E v \in MockReturns :
            Called(r, MockCall("delete", req[r].id, v, NoExc), "",
                   AfterDelete(req[r], MockCall("delete", req[r].id, v, NoExc)))
       \/ \E e \in MockRaises :
            Called(r, MockCall("delete", req[r].id, NoneVal, e), "",
                   AfterDelete(req[r],
                               MockCall("delete", req[r].id, NoneVal, e)))

StepMock(r) ==
    \/ BeginDelete(r)
    \/ MockExists(r)
    \/ MockDelete(r)
    \/ Respond(r)

NextMock == \E r \in Serial : StepMock(r)

SpecMock == Init /\ [][NextMock]_vars

\* C23: once the existence check has passed, the service's delete returns
\* the success message (success true, status 200) exactly when the
\* repository's delete returned True, and returns the failure message
\* (success false, status 500), without raising, whenever the repository
\* returned anything else.
C23_DeleteMessage ==
    \A r \in Serial :
        LET q == req[r] IN
        (Finished(q, "delete") /\ last.fn = "delete" /\ last.ok) =>
            /\ q.out.status = "ok"
            /\ q.out.val.tag = "message"
            /\ q.out.val.success <=> last.val = BoolVal(TRUE)
            /\ q.out.val.success => q.out.val.status_code = 200
            /\ ~q.out.val.success => q.out.val.status_code = 500

\* The repository answered 1, which is not True: the failure message.
C23_Witness ==
    \E r \in Serial :
        /\ Finished(req[r], "delete")
        /\ last.fn = "delete"
        /\ last.val = IntVal(1)
        /\ req[r].out.status = "ok"
        /\ req[r].out.val = MessageResponse(FALSE, 500)

----------------------------------------------------------------------------
(* The boundary: the exception handlers registered on the application *)

\* The body of an error response; a null details field is the empty text.
ErrorDetail(type, code, message, details) ==
    [type |-> type, code |-> code, message |-> message, details |-> details]

NoBody == ErrorDetail("none", 0, <<>>, <<>>)

\* The type label of a taxonomy exception (its type_ default).
TypeLabel(cls) ==
    CASE cls = "BadRequest" -> "Bad Request Error"
      [] cls = "Unauthorized" -> "Unauthorized Error"
      [] cls = "Forbidden" -> "Forbidden Error"
      [] cls = "NotFound" -> "Not Found Error"
      [] cls = "Conflict" -> "Conflict Error"
      [] cls = "InvalidField" -> "Invalid Field Error"
      [] cls = "Database" -> "Database Error"
      [] cls = "Server" -> "Server Error"

\* A taxonomy exception is answered with its own label, code, message and
\* details.
taxonomy_exception_body(exc) ==
    ErrorDetail(TypeLabel(exc.cls), exc.code, exc.message, exc.details)

attribute_error_handler(exc) ==
    ErrorDetail("Implementation Error", 500,
                <<"Error en la implementacion del servicio">>, StrOf(exc))

unhandled_exception_handler(exc, debug) ==
    ErrorDetail("Server Error", 500,
                <<"Se produjo un error interno del servidor">>,
                IF debug THEN StrOf(exc) ELSE <<>>)

\* The handler the framework picks for an exception that leaves a route:
\* the one registered for the nearest class of the exception.
ExceptionHandler(exc, debug) ==
    IF IsA(exc.cls, "BaseHTTPException") THEN taxonomy_exception_body(exc)
    ELSE IF IsA(exc.cls, "AttributeError") THEN attribute_error_handler(exc)
    ELSE unhandled_exception_handler(exc, debug)

\* The failures a route can raise outside the service methods.
RouteFailures ==
    {RawError(cls, "boom", <<>>) : cls \in {"AttributeError", "Exception"}}

\* The first entry of hist is the configuration of the deployment, the
\* second the last response sent.
AppDebug == hist[1].debug

Answer(src, thrown, body) == [src |-> src, thrown |-> thrown, body |-> body]

\* A request whose service method is over is answered: a result is
\* serialised, an exception goes through the registered handlers.
RespondBoundary(r) ==
    /\ req[r].pc = "done"
    /\ hist' = <<hist[1],
                 Answer("service", req[r].out.thrown,
                        IF req[r].out.status = "raised"
                        THEN ExceptionHandler(req[r].out.exc, AppDebug)
                        ELSE NoBody)>>
    /\ req' = [req EXCEPT ![r] =
                 [req[r] EXCEPT !.pc = "closed", !.session = NoSession]]
    /\ UNCHANGED <<etype, db, nextId, clock, last>>

\* A route fails outside its service method: the exception reaches the
\* registered handlers as it is.
RouteFails(r) ==
    /\ req[r].pc = "idle"
    /\ \E e \in RouteFailures :
          hist' = <<hist[1], Answer("route", e, ExceptionHandler(e, AppDebug))>>
    /\ req' = [req EXCEPT ![r] = [req[r] EXCEPT !.pc = "closed"]]
    /\ UNCHANGED <<etype, db, nextId, clock, last>>

StepBoundary(r) ==
    \/ Begin(r)
    \/ AddExists(r)
    \/ AddSave(r)
    \/ GetAll(r)
    \/ ByIdExists(r)
    \/ ByIdGet(r)
    \/ UpdExists(r)
    \/ UpdGet(r)
    \/ UpdName(r)
    \/ UpdSave(r)
    \/ DelExists(r)
    \/ DelDelete(r)
    \/ PageGet(r)
    \/ FindGet(r)
    \/ RespondBoundary(r)
    \/ RouteFails(r)

NextBoundary == \E r \in Serial : StepBoundary(r)

\* One request to the role or the category service behind the boundary, in
\* a deployment with or without the debug flag; the table holds the rows
\* of earlier creates.
InitBoundary ==
    /\ etype \in RepoTypes
    /\ \E k \in 0..Len(SeedNames) :
         /\ db = Seeded(k)
         /\ nextId = k + 1
         /\ clock = k + 1
    /\ req = [r \in Reqs |-> Idle]
    /\ last = NoCall
    /\ \E d \in BOOLEAN : hist = <<[debug |-> d]>>

SpecBoundary == InitBoundary /\ [][NextBoundary]_vars

Answered == Len(hist) = 2

Unexpected(a) == a.thrown.cls \in RawKinds

\* C24: without the debug flag, an unexpected (non-taxonomy) failure, raised
\* inside a service method or uncaught at the boundary, is answered as a
\* Server error with code 500 and null details; the text of the failure is
\* in details only when the debug flag is set.
C24_UnexpectedFailureHidesDetails ==
    (Answered /\ Unexpected(hist[2]) /\ ~AppDebug) =>
        /\ hist[2].body.type = "Server Error"
        /\ hist[2].body.code = 500
        /\ hist[2].body.details = <<>>

----------------------------------------------------------------------------
(* Timestamps of a row over the service operations *)

\* The request in slot r returns from an update in this step.
UpdateReturns(r) ==
    /\ req[r].pc = "upd_save"
    /\ req'[r].pc = "done"
    /\ req'[r].out.status = "ok"

\* In this step the row of id i is stamped: its updated_at changes.
Stamped(i) == RowOf(db', i).updated_at # RowOf(db, i).updated_at

FrameOfTimestamps ==
    /\ \A i \in 1..MaxId + 1 :
         /\ (HasId(db, i) /\ HasId(db', i)) =>
              /\ RowOf(db', i).created_at = RowOf(db, i).created_at
              /\ Stamped(i) =>
                   \E r \in Reqs : UpdateReturns(r) /\ req[r].id = i
         /\ (~HasId(db, i) /\ HasId(db', i)) =>
              /\ RowOf(db', i).created_at = clock
              /\ RowOf(db', i).updated_at = NoTime
    /\ \A r \in Reqs :
         UpdateReturns(r) =>
            /\ HasId(db, req[r].id) /\ HasId(db', req[r].id)
            /\ {db'[k].id : k \in 1..Len(db')} = {db[k].id : k \in 1..Len(db)}
            /\ RowOf(db', req[r].id).updated_at = clock
            /\ clock # NoTime
            /\ Stamped(req[r].id)
            /\ req'[r].out.val.tag = "entity"
            /\ req'[r].out.val.e = RowOf(db', req[r].id)

\* C25: over any sequence of service operations, a row keeps the created_at
\* of its first persistence (an update changes neither id nor created_at);
\* its updated_at is absent from creation until the first successful update
\* and is stamped by every successful update, also by one that leaves the
\* name unchanged.
C25_TimestampsFrame == [][FrameOfTimestamps]_vars

----------------------------------------------------------------------------
(* A raising mutating call and the stored rows *)

\* C26: whenever a save or a delete of a repository ends by raising, be it
\* from the wrapped body, the commit or the refresh after the commit, the
\* stored rows are exactly those from before the call.
C26_RaisingCallLeavesRows ==
    (last.fn \in {"save", "delete"} /\ ~last.ok) => db = last.dbBefore

----------------------------------------------------------------------------
(* A request on the row of an id while another request deletes that row *)

\* The requests that name a row by its id.
ByIdArrivals ==
    {a \in Arrivals : a.op \in {"read_by_id", "update", "delete"}}

BeginById(r) ==
    /\ req[r].pc = "idle"
    /\ \E a \in ByIdArrivals :
         /\ a.op = "update" => clock <= MaxClock
         /\ req' = [req EXCEPT ![r] =
                      [a EXCEPT !.pc = FirstPc(a.op), !.db0 = db,
                                !.session = AsyncSessionLocal(req)]]
    /\ UNCHANGED <<etype, db, nextId, clock, last, hist>>

StepRace(r) ==
    \/ BeginById(r)
    \/ ByIdExists(r)
    \/ ByIdGet(r)
    \/ UpdExists(r)
    \/ UpdGet(r)
    \/ UpdName(r)
    \/ UpdSave(r)
    \/ DelExists(r)
    \/ DelDelete(r)
    \/ CloseSession(r)

NextRace == \E r \in Reqs : StepRace(r)

\* Two requests at the same time over a table that holds the rows of
\* earlier creates.
SpecRace == InitConc /\ [][NextRace]_vars

\* The request q ran while the other request p deleted the row q names.
DeletedUnder(q, p) ==
    /\ Over(q)
    /\ ~q.faulted
    /\ HasId(q.db0, q.id)
    /\ p.op = "delete" /\ p.id = q.id
    /\ Over(p) /\ p.out.status = "ok"

\* C27: a read-by-id, update or delete of id X that interleaves with a
\* delete of X by another request ends with its normal result or with
\* NotFound (404) (an update also with the Conflict of its name check),
\* never with a Server or Database error (500) because the row vanished
\* between its existence check and its load or removal.
C27_VanishedRowIsNotFound ==
    \A r \in Reqs : \A s \in Reqs \ {r} :
        DeletedUnder(req[r], req[s]) =>
            \/ req[r].out.status = "ok"
            \/ RaisedKind(req[r], "NotFound", 404)
            \/ req[r].op = "update" /\ RaisedKind(req[r], "Conflict", 409)

----------------------------------------------------------------------------
(* NotFound of a search and the page asked for *)

\* C28: a search raises NotFound naming the search term only if no stored
\* row matches the term; when rows match but the page asked for lies beyond
\* the last page, the search does not report NotFound.
C28_SearchNotFoundOnlyWithoutMatch ==
    \A r \in Serial :
        (Finished(req[r], "search") /\ RaisedKind(req[r], "NotFound", 404)) =>
            Matching(db, req[r].term) = <<>>

----------------------------------------------------------------------------
(* The two queries of a paginated read while another request writes *)

\* The request slot of the paginated read; the other slot writes.
Reader == "r1"

\* get_pageable or find is called with a valid page and size.
BeginRead(r) ==
    /\ r = Reader
    /\ req[r].pc = "idle"
    /\ \E a \in Arrivals :
         /\ a.op \in {"list", "search"}
         /\ a.page >= 1
         /\ a.size >= 1
         /\ req' = [req EXCEPT ![r] =
                      [a EXCEPT !.pc = "page_data", !.db0 = db,
                                !.session = AsyncSessionLocal(req)]]
    /\ UNCHANGED <<etype, db, nextId, clock, last, hist>>

BeginWrite(r) == r # Reader /\ BeginMutation(r)

\* The rows the statements of the read select from the table d.
Selected(q, d) ==
    IF q.op = "search" THEN FindRows(<<Crit("nombre", 0, q.term)>>, d) ELSE d

\* The first round trip: the data query with OFFSET and LIMIT.  hist holds
\* the rows it returned and the table it saw.
DataQuery(r) ==
    /\ req[r].pc = "page_data"
    /\ hist' = <<[rows |-> Slice(Selected(req[r], db),
                                 (req[r].page - 1) * req[r].size, req[r].size),
                  seen |-> db]>>
    /\ req' = [req EXCEPT ![r] = Goto(req[r], "page_count")]
    /\ UNCHANGED <<etype, db, nextId, clock, last>>

PageOf(q, rows, d) ==
    BodyOk(PageVal(rows, BuildMeta(Len(Selected(q, d)), q.page, q.size)),
           NoChange, <<LogOp("exec", 0), LogOp("exec", 0)>>)

PageCall(q, fname, rows) ==
    Transactional(Handlers(etype, fname), ReadOnly(fname), fname,
                  PageOf(q, rows, db), CurCtx, NoFault)

\* The second round trip: the count query, on the table as it is now, and
\* the Page built from the rows of the first and the total of the second.
CountQuery(r) ==
    /\ req[r].pc = "page_count"
    /\ Called(r, PageCall(req[r], IF req[r].op = "search" THEN "find"
                                  ELSE "get_pageable", hist[1].rows), "",
              Finish(req[r],
                     Returned(PageCall(req[r], IF req[r].op = "search"
                                               THEN "find" ELSE "get_pageable",
                                       hist[1].rows).val)))

StepPage(r) ==
    \/ BeginRead(r)
    \/ DataQuery(r)
    \/ CountQuery(r)
    \/ BeginWrite(r)
    \/ AddExists(r)
    \/ AddSave(r)
    \/ UpdExists(r)
    \/ UpdGet(r)
    \/ UpdName(r)
    \/ UpdSave(r)
    \/ DelExists(r)
    \/ DelDelete(r)
    \/ CloseSession(r)

NextPage == \E r \in Reqs : StepPage(r)

SpecPage == InitConc /\ [][NextPage]_vars

\* The Page the read returned.
PageRead == req[Reader].out.val

HasPage == Over(req[Reader]) /\ req[Reader].out.status = "ok"

\* max(0, total - (current_page - 1) * per_page)
RowsLeft(meta) ==
    IF meta.total - (meta.current_page - 1) * meta.per_page > 0
    THEN meta.total - (meta.current_page - 1) * meta.per_page
    ELSE 0

\* C29 as stated: every Page returned by get_pageable or find, under any
\* interleaving with creates and deletes of other requests, holds at most
\* per_page rows and no more rows than max(0, total - (current_page - 1) *
\* per_page).
C29_PageConsistent ==
    HasPage =>
        /\ Len(PageRead.data) <= PageRead.meta.per_page
        /\ Len(PageRead.data) <= RowsLeft(PageRead.meta)

\* The count query has just answered, and every row the data query saw is
\* still stored under the same name.
CountedWithoutLoss ==
    /\ last.fn \in {"get_pageable", "find"}
    /\ \A i \in 1..Len(hist[1].seen) :
         /\ HasId(db, hist[1].seen[i].id)
         /\ RowOf(db, hist[1].seen[i].id).nombre = hist[1].seen[i].nombre

\* C29 amended: every Page returned holds at most per_page rows under any
\* interleaving; it holds no more rows than max(0, total - (current_page -
\* 1) * per_page) provided no row was deleted or renamed by another request
\* between the data query and the count query.
C29_PageConsistentWithoutLoss ==
    HasPage =>
        /\ Len(PageRead.data) <= PageRead.meta.per_page
        /\ CountedWithoutLoss => Len(PageRead.data) <= RowsLeft(PageRead.meta)

\* A create committed between the two queries of a read that returned rows.
C29_Witness ==
    /\ HasPage
    /\ CountedWithoutLoss
    /\ PageRead.data # <<>>
    /\ Len(db) > Len(hist[1].seen)
    /\ PageRead.meta.total = Len(hist[1].seen) + 1

----------------------------------------------------------------------------
(* The rollbacks of a failed mutating call *)

\* C30: when a mutating operation (save or delete) of a repository wrapped
\* by the decorator fails, rollback is invoked exactly once for it and no
\* commit follows the rollback; this holds for save and for delete, whose
\* body calls the separately wrapped get_by_id.
C30_OneRollbackPerFailure ==
    (Decorated /\ last.fn \in {"save", "delete"} /\ ~last.ok) =>
        /\ Cardinality(OpsOf(last.log, "rollback")) = 1
        /\ \A i \in OpsOf(last.log, "rollback") :
             \A j \in OpsOf(last.log, "commit") : j < i

====
